---- MODULE Spec2Model ----
(***************************************************************************)
(* Word timing and caption layout engine of capfuse (worker/timing.py,     *)
(* worker/ass_builder.py, worker/alignment.py, worker/main_enterprise.py). *)
(*                                                                         *)
(* Times are integers in units of 10 microseconds (1 s = 100000), so that  *)
(* every constant of the code (0.45, 0.2, 0.10, 1.5, 0.05, 0.3, 0.1,       *)
(* 0.45 * 0.75 = 0.3375) and every product the code forms on the inputs    *)
(* enumerated here is an exact integer; the arithmetic is the code's       *)
(* arithmetic over the rationals (no binary rounding).                     *)
(***************************************************************************)
EXTENDS Integers, Sequences, FiniteSets, TLC

VARIABLES
    words_data,           \* optimize_timing: the caller's word list
    clip_duration,        \* optimize_timing: clip duration, or None
    gap_merge_threshold,  \* TimingOptimizer.gap_merge_threshold
    words,                \* optimize_timing: the local `words`
    pc,                   \* position in optimize_timing
    again,                \* result of calling optimize_timing on its own result
    g_words,              \* _group_words_into_sentences: the argument `words`
    groups,               \* _group_words_into_sentences: `groups` before the overlap fix
    fixed_groups,         \* _fix_sentence_timing_overlaps: the returned `fixed_groups`
    gpc,                  \* position of the caller of _group_words_into_sentences
    events,               \* _generate_events: the list `events`, each line by its fields
    events_text,          \* _generate_events: the returned string, in pieces
    video_width,          \* ASSBuilder.video_width
    video_height,         \* ASSBuilder.video_height
    header,               \* _generate_header: PlayResX and PlayResY of the returned text
    jpc,                  \* main_enterprise.main: position
    caption_mode,         \* main: sys.argv[5]
    progress,             \* the PROGRESS:<n> lines printed so far
    exit_status,          \* exit status of the worker process, None while it runs
    failed_stage,         \* the stage whose failure ended the job, "none" otherwise
    initial_words,        \* main: initial_words (recognizer timing)
    gentle_requests,      \* requests sent to the alignment service so far
    gentle_data,          \* the 'words' of the alignment service's response
    align_failure,        \* how the alignment service failed, "none" otherwise
    aligned_data,         \* main: aligned_data; <<>> is None, <<d>> is the dict d
    aligned_words,        \* main: aligned_words
    f_words,              \* WordFilter.filter_words: the argument words_data
    nlp,                  \* WordFilter.nlp: the loaded tagger, or NoModel
    called,               \* the values of show_filler filter_words was called with
    filtered,             \* the list filter_words returned, per value of show_filler
    heap,                 \* the dict objects of a call of optimize_timing, by address
    d_input,              \* the caller's list words_data, as addresses
    d_before,             \* the dicts of the caller's list as they were at the call
    d_clip,               \* clip_duration of that call
    d_threshold,          \* gap_merge_threshold of that call
    d_words,              \* the local `words`, as addresses
    d_held,               \* the lists earlier phases returned, as addresses
    dpc,                  \* position in that call, "raised" after an exception
    arg_seconds,              \* _seconds_to_ass_time: the argument
    ass_time,             \* _seconds_to_ass_time: the returned string, by its fields
    arg_text,                 \* _escape_ass_text: the argument, a sequence of characters
    escaped,              \* _escape_ass_text: the returned string
    load_words,           \* estimate_reading_load: the argument `words`
    reading_load,         \* estimate_reading_load: <<>> is {}, <<d>> the dict d
    bpc                   \* which of these calls has returned

timing_vars == <<words_data, clip_duration, gap_merge_threshold, words, pc, again>>
group_vars ==
    <<g_words, groups, fixed_groups, gpc, events, events_text, video_width, video_height,
      header>>

job_vars ==
    <<jpc, caption_mode, progress, exit_status, failed_stage, initial_words,
      gentle_requests, gentle_data, align_failure, aligned_data, aligned_words>>

filter_vars == <<f_words, nlp, called, filtered>>

dict_vars == <<heap, d_input, d_before, d_clip, d_threshold, d_words, d_held, dpc>>

builder_vars == <<arg_seconds, ass_time, arg_text, escaped, load_words, reading_load, bpc>>

vars == <<timing_vars, group_vars, job_vars, filter_vars, dict_vars, builder_vars>>

(* what the calls of one component leave alone *)
outside_timing == <<group_vars, job_vars, filter_vars, dict_vars, builder_vars>>
outside_group == <<timing_vars, job_vars, filter_vars, dict_vars, builder_vars>>
outside_job == <<timing_vars, group_vars, filter_vars, dict_vars, builder_vars>>
outside_filter == <<timing_vars, group_vars, job_vars, dict_vars, builder_vars>>
outside_dict == <<timing_vars, group_vars, job_vars, filter_vars, builder_vars>>
outside_builder == <<timing_vars, group_vars, job_vars, filter_vars, dict_vars>>

----------------------------------------------------------------------------
(* Bounds of the model *)

MaxWords == 3
MaxGroupWords == 7
MaxGentleWords == 3
MaxFfmpegLines == 2
MaxFilterWords == 4
MaxDictWords == 2
MaxMinutes == 60
MaxTextLen == 4
MaxLoadWords == 7
MaxCanvasWords == 3

(* Python's None for an Optional[float] *)
None == -1

----------------------------------------------------------------------------
(* TimingOptimizer.__init__ defaults and the literals of timing.py *)

min_duration == 45000
max_duration == 150000
active_word_bonus == 20000
overlap_buffer == 5000
clamp_floor == 10000
validate_duration == 30000

Max(a, b) == IF a >= b THEN a ELSE b

Last(s) == s[Len(s)]

----------------------------------------------------------------------------
(* sorted(words_data, key=lambda w: w['start']): stable insertion *)

RECURSIVE InsertByStart(_, _)
InsertByStart(s, w) ==
    IF s = <<>> THEN <<w>>
    ELSE IF Last(s).start <= w.start THEN Append(s, w)
    ELSE Append(InsertByStart(SubSeq(s, 1, Len(s) - 1), w), Last(s))

RECURSIVE SortedByStart(_)
SortedByStart(s) ==
    IF s = <<>> THEN <<>>
    ELSE InsertByStart(SortedByStart(SubSeq(s, 1, Len(s) - 1)), Last(s))

----------------------------------------------------------------------------
(* Phase 1: _apply_minimum_durations *)

EffectiveMin(w) == min_duration + (IF w.active THEN active_word_bonus ELSE 0)

ApplyMinimumDurations(ws) ==
    [i \in DOMAIN ws |->
        IF ws[i].end - ws[i].start < EffectiveMin(ws[i])
        THEN [ws[i] EXCEPT !.end = ws[i].start + EffectiveMin(ws[i])]
        ELSE ws[i]]

----------------------------------------------------------------------------
(* Phase 2: _merge_short_gaps *)

RECURSIVE MergeLoop(_, _, _, _)
MergeLoop(ws, i, merged, thr) ==
    IF i > Len(ws) THEN merged
    ELSE LET current_word == ws[i]
             prev_word == Last(merged)
             gap == current_word.start - prev_word.end
             kept == IF gap <= thr
                     THEN [merged EXCEPT ![Len(merged)] =
                              [prev_word EXCEPT !.end = current_word.start]]
                     ELSE merged
         IN MergeLoop(ws, i + 1, Append(kept, current_word), thr)

MergeShortGaps(ws, thr) ==
    IF Len(ws) <= 1 THEN ws
    ELSE MergeLoop(ws, 2, <<ws[1]>>, thr)

----------------------------------------------------------------------------
(* Phase 3: _resolve_overlaps *)

ResolveWord(ws, i, resolved_words) ==
    LET current_word == ws[i] IN
    IF i + 1 <= Len(ws) /\ current_word.end > ws[i + 1].start
    THEN LET overlap_start == ws[i + 1].start
             overlap_end == current_word.end
             overlap_duration == overlap_end - overlap_start
             split_point == overlap_start + ((overlap_duration * 3) \div 10)
             new_end == split_point - overlap_buffer
             limit == (min_duration * 3) \div 4
         IN IF new_end - current_word.start < limit
            THEN LET potential_start == new_end - limit
                     prev_end == IF resolved_words # <<>>
                                 THEN Last(resolved_words).end ELSE 0
                 IN [current_word EXCEPT
                        !.end = new_end,
                        !.start = IF i > 1
                                  THEN Max(potential_start, prev_end + overlap_buffer)
                                  ELSE Max(potential_start, 0)]
            ELSE [current_word EXCEPT !.end = new_end]
    ELSE current_word

RECURSIVE ResolveLoop(_, _, _)
ResolveLoop(ws, i, resolved_words) ==
    IF i > Len(ws) THEN resolved_words
    ELSE ResolveLoop(ws, i + 1, Append(resolved_words, ResolveWord(ws, i, resolved_words)))

ResolveOverlaps(ws) ==
    IF Len(ws) <= 1 THEN ws
    ELSE ResolveLoop(ws, 1, <<>>)

----------------------------------------------------------------------------
(* Phase 4: _apply_maximum_durations *)

(* _apply_maximum_durations cutting an over-long word at its start instead *)
(* of its end                                                              *)
ApplyMaximumDurationsAtStart(ws) ==
    [i \in DOMAIN ws |->
        IF ws[i].end - ws[i].start > max_duration
        THEN [ws[i] EXCEPT !.start = ws[i].end - max_duration]
        ELSE ws[i]]

ApplyMaximumDurations(ws) ==
    [i \in DOMAIN ws |->
        IF ws[i].end - ws[i].start > max_duration
        THEN [ws[i] EXCEPT !.end = ws[i].start + max_duration]
        ELSE ws[i]]

----------------------------------------------------------------------------
(* Phase 5: _clamp_to_clip_duration *)

ClampWord(w, clip) ==
    LET clamped_end == IF w.end > clip THEN clip ELSE w.end
    IN IF clamped_end - w.start < clamp_floor
       THEN [w EXCEPT !.end = clamped_end, !.start = Max(0, clamped_end - clamp_floor)]
       ELSE [w EXCEPT !.end = clamped_end]

RECURSIVE ClampToClipDuration(_, _)
ClampToClipDuration(ws, clip) ==
    IF ws = <<>> THEN <<>>
    ELSE LET rest == ClampToClipDuration(Tail(ws), clip)
         IN IF Head(ws).start >= clip
            THEN rest
            ELSE <<ClampWord(Head(ws), clip)>> \o rest

(* `if clip_duration:` is false for None and for 0 *)
ClipGiven(clip) == clip # None /\ clip # 0

----------------------------------------------------------------------------
(* Phase 6: _validate_timing *)

(* ValidateWord with `<` in place of `<=` in the test of line 201 *)
ValidateWordStrict(w) ==
    LET e1 == IF w.end < w.start THEN w.start + validate_duration ELSE w.end
    IN IF w.start < 0
       THEN [w EXCEPT !.start = 0, !.end = Max(e1, validate_duration)]
       ELSE [w EXCEPT !.end = e1]

ValidateWord(w) ==
    LET e1 == IF w.end <= w.start THEN w.start + validate_duration ELSE w.end
    IN IF w.start < 0
       THEN [w EXCEPT !.start = 0, !.end = Max(e1, validate_duration)]
       ELSE [w EXCEPT !.end = e1]

ValidateTiming(ws) == [i \in DOMAIN ws |-> ValidateWord(ws[i])]

----------------------------------------------------------------------------
(* optimize_timing as one call *)

OptimizeTiming(wd, clip, thr) ==
    IF wd = <<>> THEN wd
    ELSE LET p1 == ApplyMinimumDurations(SortedByStart(wd))
             p2 == MergeShortGaps(p1, thr)
             p3 == ResolveOverlaps(p2)
             p4 == ApplyMaximumDurations(p3)
             p5 == IF ClipGiven(clip) THEN ClampToClipDuration(p4, clip) ELSE p4
         IN ValidateTiming(p5)

----------------------------------------------------------------------------
(* the parts of the state a specification does not use stay as they are    *)

TimingIdle ==
    /\ words_data = <<>>
    /\ clip_duration = None
    /\ gap_merge_threshold = 0
    /\ words = <<>>
    /\ pc = "idle"
    /\ again = <<>>

GroupIdle ==
    /\ g_words = <<>>
    /\ groups = <<>>
    /\ fixed_groups = <<>>
    /\ gpc = "idle"
    /\ events = <<>>
    /\ events_text = <<>>
    /\ video_width = 576
    /\ video_height = 1024
    /\ header = <<>>

JobIdle ==
    /\ jpc = "idle"
    /\ caption_mode = "words"
    /\ progress = <<>>
    /\ exit_status = None
    /\ failed_stage = "none"
    /\ initial_words = <<>>
    /\ gentle_requests = <<>>
    /\ gentle_data = <<>>
    /\ align_failure = "none"
    /\ aligned_data = <<>>
    /\ aligned_words = <<>>

(* WordFilter.nlp when no SpaCy model could be loaded (None); a loaded      *)
(* model is <<tagger>>                                                     *)
NoModel == <<>>

FilterIdle ==
    /\ f_words = <<>>
    /\ nlp = NoModel
    /\ called = {}
    /\ filtered = <<>>

DictIdle ==
    /\ heap = <<>>
    /\ d_input = <<>>
    /\ d_before = <<>>
    /\ d_clip = None
    /\ d_threshold = 0
    /\ d_words = <<>>
    /\ d_held = <<>>
    /\ dpc = "idle"

BuilderIdle ==
    /\ arg_seconds = 0
    /\ ass_time = <<>>
    /\ arg_text = <<>>
    /\ escaped = <<>>
    /\ load_words = <<>>
    /\ reading_load = <<>>
    /\ bpc = "idle"

(* a specification runs one component, the others stay idle *)
OnlyTiming == GroupIdle /\ JobIdle /\ FilterIdle /\ DictIdle /\ BuilderIdle
OnlyGroup == TimingIdle /\ JobIdle /\ FilterIdle /\ DictIdle /\ BuilderIdle
OnlyJob == TimingIdle /\ GroupIdle /\ FilterIdle /\ DictIdle /\ BuilderIdle
OnlyFilter == TimingIdle /\ GroupIdle /\ JobIdle /\ DictIdle /\ BuilderIdle
OnlyDict == TimingIdle /\ GroupIdle /\ JobIdle /\ FilterIdle /\ BuilderIdle
OnlyBuilder == TimingIdle /\ GroupIdle /\ JobIdle /\ FilterIdle /\ DictIdle

----------------------------------------------------------------------------
(* The calls of optimize_timing that are explored: word lists of up to     *)
(* MaxWords records, in any order, with equal, negative and positive       *)
(* starts, zero, negative and over-long durations; the record's `word` is  *)
(* its position in the caller's list.                                      *)

Starts == {-50000, 0, 20000}
Thresholds == {-1000000, 0, 10000}
Clips == {None, 0, 25000}

(* the active flag only changes the minimum of phase 1 (0.45 or 0.65), so  *)
(* it varies on the short words; the 2 s words exceed both minima          *)
WordShapes ==
    [start : Starts, dur : {0}, active : BOOLEAN]
        \cup [start : Starts, dur : {200000}, active : {TRUE}]
        \cup {[start |-> 20000, dur |-> -20000, active |-> FALSE]}

MkWord(i, sh) ==
    [word |-> i, start |-> sh.start, end |-> sh.start + sh.dur, active |-> sh.active]

WordLists ==
    UNION {{[i \in 1..n |-> MkWord(i, f[i])] : f \in [1..n -> WordShapes]} : n \in 0..MaxWords}

TimingInit ==
    /\ words_data \in WordLists
    /\ clip_duration \in Clips
    /\ gap_merge_threshold \in Thresholds
    /\ words = <<>>
    /\ pc = "start"
    /\ again = <<>>
    /\ OnlyTiming

(* optimize_timing without lines 44-45, indexing the first word of an      *)
(* empty list                                                              *)
ReturnEmptyIndexError ==
    /\ pc = "start" /\ words_data = <<>>
    /\ pc' = "raised"
    /\ UNCHANGED <<words_data, clip_duration, gap_merge_threshold, words, again, outside_timing>>

(* lines 44-45: an empty list is returned as it is *)
ReturnEmpty ==
    /\ pc = "start" /\ words_data = <<>>
    /\ pc' = "done"
    /\ words' = words_data
    /\ UNCHANGED <<words_data, clip_duration, gap_merge_threshold, again, outside_timing>>

(* line 48 *)
Sort ==
    /\ pc = "start" /\ words_data # <<>>
    /\ words' = SortedByStart(words_data)
    /\ pc' = "sorted"
    /\ UNCHANGED <<words_data, clip_duration, gap_merge_threshold, again, outside_timing>>

(* line 51 *)
Phase1 ==
    /\ pc = "sorted"
    /\ words' = ApplyMinimumDurations(words)
    /\ pc' = "min"
    /\ UNCHANGED <<words_data, clip_duration, gap_merge_threshold, again, outside_timing>>

(* line 54 *)
Phase2 ==
    /\ pc = "min"
    /\ words' = MergeShortGaps(words, gap_merge_threshold)
    /\ pc' = "merged"
    /\ UNCHANGED <<words_data, clip_duration, gap_merge_threshold, again, outside_timing>>

(* line 57 *)
Phase3 ==
    /\ pc = "merged"
    /\ words' = ResolveOverlaps(words)
    /\ pc' = "resolved"
    /\ UNCHANGED <<words_data, clip_duration, gap_merge_threshold, again, outside_timing>>

(* line 60 *)
Phase4 ==
    /\ pc = "resolved"
    /\ words' = ApplyMaximumDurations(words)
    /\ pc' = "maxed"
    /\ UNCHANGED <<words_data, clip_duration, gap_merge_threshold, again, outside_timing>>

(* lines 63-64 *)
Phase5 ==
    /\ pc = "maxed"
    /\ words' = IF ClipGiven(clip_duration)
                THEN ClampToClipDuration(words, clip_duration)
                ELSE words
    /\ pc' = "clamped"
    /\ UNCHANGED <<words_data, clip_duration, gap_merge_threshold, again, outside_timing>>

(* lines 67-69 *)
Phase6 ==
    /\ pc = "clamped"
    /\ words' = ValidateTiming(words)
    /\ pc' = "done"
    /\ UNCHANGED <<words_data, clip_duration, gap_merge_threshold, again, outside_timing>>

(* the caller passes the result to optimize_timing once more *)
Reoptimize ==
    /\ pc = "done"
    /\ again' = OptimizeTiming(words, clip_duration, gap_merge_threshold)
    /\ pc' = "redone"
    /\ UNCHANGED <<words_data, clip_duration, gap_merge_threshold, words, outside_timing>>

TimingNext ==
    \/ ReturnEmpty
    \/ Sort
    \/ Phase1
    \/ Phase2
    \/ Phase3
    \/ Phase4
    \/ Phase5
    \/ Phase6
    \/ Reoptimize

SpecTiming == TimingInit /\ [][TimingNext]_vars

----------------------------------------------------------------------------
(* ASSBuilder._group_words_into_sentences and its literals (ass_builder.py) *)

max_words_per_sentence == 6
max_sentence_duration == 350000
large_gap_threshold == 80000
sentence_gap == 5000

(* ShouldBreak with `>` in place of `>=` in the word-count test of line 201 *)
ShouldBreakAfterSeven(current_group, word) ==
    /\ current_group # <<>>
    /\ LET gap_from_last == word.start - Last(current_group).end
           duration_from_first == word.start - current_group[1].start
       IN \/ Len(current_group) > max_words_per_sentence
          \/ duration_from_first > max_sentence_duration
          \/ gap_from_last > large_gap_threshold

ShouldBreak(current_group, word) ==
    /\ current_group # <<>>
    /\ LET gap_from_last == word.start - Last(current_group).end
           duration_from_first == word.start - current_group[1].start
       IN \/ Len(current_group) >= max_words_per_sentence
          \/ duration_from_first > max_sentence_duration
          \/ gap_from_last > large_gap_threshold

(* GroupLoop starting the new group empty, without the word that triggered *)
(* the break                                                               *)
RECURSIVE GroupLoopDropping(_, _, _, _)
GroupLoopDropping(ws, i, gs, current_group) ==
    IF i > Len(ws)
    THEN IF current_group # <<>> THEN Append(gs, current_group) ELSE gs
    ELSE IF ShouldBreak(current_group, ws[i])
         THEN GroupLoopDropping(ws, i + 1, Append(gs, current_group), <<>>)
         ELSE GroupLoopDropping(ws, i + 1, gs, Append(current_group, ws[i]))

(* the loop of lines 191-210, then lines 213-214 *)
RECURSIVE GroupLoop(_, _, _, _)
GroupLoop(ws, i, gs, current_group) ==
    IF i > Len(ws)
    THEN IF current_group # <<>> THEN Append(gs, current_group) ELSE gs
    ELSE IF ShouldBreak(current_group, ws[i])
         THEN GroupLoop(ws, i + 1, Append(gs, current_group), <<ws[i]>>)
         ELSE GroupLoop(ws, i + 1, gs, Append(current_group, ws[i]))

GroupWords(ws) == IF ws = <<>> THEN <<>> ELSE GroupLoop(ws, 1, <<>>, <<>>)

(* FixGroup removing the last word of a group whenever it overlaps the     *)
(* next group, without truncating it                                       *)
FixGroupDropOverlapping(gs, i) ==
    LET group == gs[i] IN
    IF group = <<>> THEN <<>>
    ELSE IF i + 1 <= Len(gs) /\ gs[i + 1] # <<>>
         THEN IF Last(group).end >= gs[i + 1][1].start
              THEN SubSeq(group, 1, Len(group) - 1)
              ELSE group
         ELSE group

(* one iteration of the loop of _fix_sentence_timing_overlaps: the group  *)
(* to append, or <<>> when the iteration appends nothing                   *)
FixGroup(gs, i) ==
    LET group == gs[i] IN
    IF group = <<>> THEN <<>>
    ELSE IF i + 1 <= Len(gs) /\ gs[i + 1] # <<>>
         THEN LET next_start == gs[i + 1][1].start
                  current_end == Last(group).end
              IN IF current_end >= next_start
                 THEN LET new_end == next_start - sentence_gap
                      IN IF new_end <= Last(group).start
                         THEN SubSeq(group, 1, Len(group) - 1)
                         ELSE [group EXCEPT ![Len(group)].end = new_end]
                 ELSE group
         ELSE group

RECURSIVE FixLoop(_, _, _)
FixLoop(gs, i, fixed) ==
    IF i > Len(gs) THEN fixed
    ELSE LET fixed_group == FixGroup(gs, i)
         IN FixLoop(gs, i + 1, IF fixed_group = <<>> THEN fixed ELSE Append(fixed, fixed_group))

FixSentenceTimingOverlaps(gs) ==
    IF Len(gs) <= 1 THEN gs ELSE FixLoop(gs, 1, <<>>)

----------------------------------------------------------------------------
(* ASSBuilder._seconds_to_ass_time and _generate_events                    *)

(* x / unit rounded to the nearest integer, an exact half to the even one: *)
(* what round() and the format code .2f do on the exact value              *)
RoundHalfEven(x, unit) ==
    LET q == x \div unit
        r == x % unit
    IN IF 2 * r < unit THEN q
       ELSE IF 2 * r > unit THEN q + 1
       ELSE IF q % 2 = 0 THEN q ELSE q + 1

(* f"{hours}:{minutes:02d}:{secs:05.2f}": the three fields of the string;  *)
(* `secs` is the field SS.CC in centiseconds (6000 prints as 60.00)        *)
SecondsToAssTime(seconds) ==
    [hours |-> seconds \div 360000000,
     minutes |-> (seconds % 360000000) \div 6000000,
     secs |-> RoundHalfEven(seconds % 6000000, 1000)]

(* lines 26-28: the positions __init__ derives from the canvas; int() of a *)
(* non-negative product truncates                                          *)
center_x == video_width \div 2
base_y == (video_height * 85) \div 100
alt_y == (video_height * 88) \div 100

(* lines 51-61: the resolution _generate_header writes *)
GenerateHeader == [PlayResX |-> video_width, PlayResY |-> video_height]

(* line 153 with the same row for every group *)
PosYSameRow(group_idx) == 860

(* line 153: pos_y = 900 if group_idx % 2 else 860 *)
PosY(group_idx) == IF group_idx % 2 # 0 THEN 900 ELSE 860

(* lines 153-175: the Dialogue line of one group: Start, End, the \pos     *)
(* column and row, and per word the \k duration in centiseconds and the    *)
(* word                                                                    *)
DialogueEvent(word_group, group_idx) ==
    [start |-> SecondsToAssTime(word_group[1].start),
     end |-> SecondsToAssTime(Last(word_group).end),
     pos_x |-> center_x,
     pos_y |-> PosY(group_idx),
     karaoke |-> [i \in DOMAIN word_group |->
                    [k |-> RoundHalfEven(word_group[i].end - word_group[i].start, 1000),
                     word |-> word_group[i].word]]]

(* the loop of lines 148-176; group_idx counts from 0 *)
RECURSIVE EventsLoop(_, _, _)
EventsLoop(word_groups, n, evs) ==
    IF n > Len(word_groups) THEN evs
    ELSE EventsLoop(word_groups, n + 1,
                    IF word_groups[n] = <<>> THEN evs
                    ELSE Append(evs, DialogueEvent(word_groups[n], n - 1)))

GenerateEventsOf(word_groups) == EventsLoop(word_groups, 1, <<>>)

(* lines 139-141: the header, a triple-quoted string with two line ends *)
events_header == <<"[Events]", "\n", "Format:", "\n">>

(* separator.join(events) with a Dialogue line written "Dialogue:" *)
RECURSIVE Join(_, _)
Join(evs, separator) ==
    IF evs = <<>> THEN <<>>
    ELSE IF Len(evs) = 1 THEN <<"Dialogue:">>
    ELSE <<"Dialogue:", separator>> \o Join(Tail(evs), separator)

(* line 178: events_header + "\\n".join(events) + "\\n"; the literal of the *)
(* source is a backslash followed by the letter n, not a line end          *)
EventsText(evs) == events_header \o Join(evs, "\\n") \o <<"\\n">>

----------------------------------------------------------------------------
(* The calls of _group_words_into_sentences that are explored: lists of up *)
(* to MaxGroupWords validated words (end > start >= 0) in start order, as  *)
(* optimize_timing returns them. Each word starts `delta` after the start  *)
(* of the word before it (the first one after 0) and lasts `dur`:          *)
(*   0.3 s / 0.3 s   words that touch, 0.3 s apart                         *)
(*   1.0 s / 0.3 s   a pause of 0.7 s, below the gap threshold             *)
(*   1.2 s / 0.3 s   a pause of 0.9 s, above the gap threshold             *)
(*   0.05 s / 0.05 s a 50 ms word that starts inside or right at the end   *)
(*                   of the word before it (what the clip clamp of         *)
(*                   optimize_timing leaves when it pulls a start back)    *)

Steps ==
    { [delta |-> 30000, dur |-> 30000],
      [delta |-> 100000, dur |-> 30000],
      [delta |-> 120000, dur |-> 30000],
      [delta |-> 5000, dur |-> 5000] }

NextWord(ws, st) ==
    LET prev_start == IF ws = <<>> THEN 0 ELSE Last(ws).start
    IN [word |-> Len(ws) + 1, start |-> prev_start + st.delta,
        end |-> prev_start + st.delta + st.dur, active |-> TRUE]

RECURSIVE Chains(_)
Chains(n) ==
    IF n = 0 THEN {<<>>}
    ELSE LET shorter == Chains(n - 1)
         IN shorter \cup {Append(ws, NextWord(ws, st)) :
                             ws \in {c \in shorter : Len(c) = n - 1}, st \in Steps}

GroupInputs == Chains(MaxGroupWords)

GroupInit ==
    /\ OnlyGroup
    /\ g_words \in GroupInputs
    /\ groups = <<>>
    /\ fixed_groups = <<>>
    /\ gpc = "call"
    /\ events = <<>>
    /\ events_text = <<>>
    /\ video_width = 576
    /\ video_height = 1024
    /\ header = <<>>

(* lines 180-217: the whole call *)
GroupWordsIntoSentences ==
    /\ gpc = "call"
    /\ groups' = GroupWords(g_words)
    /\ fixed_groups' = FixSentenceTimingOverlaps(GroupWords(g_words))
    /\ gpc' = "returned"
    /\ UNCHANGED <<g_words, events, events_text, video_width, video_height, header, outside_group>>

(* lines 137-178: the whole call, with the call of line 146 *)
GenerateEvents ==
    /\ gpc = "call"
    /\ groups' = GroupWords(g_words)
    /\ fixed_groups' = FixSentenceTimingOverlaps(GroupWords(g_words))
    /\ events' = GenerateEventsOf(FixSentenceTimingOverlaps(GroupWords(g_words)))
    /\ events_text' = EventsText(GenerateEventsOf(FixSentenceTimingOverlaps(GroupWords(g_words))))
    /\ gpc' = "generated"
    /\ UNCHANGED <<g_words, video_width, video_height, header, outside_group>>

(* the groups a direct call of _fix_sentence_timing_overlaps is given: every *)
(* word of the list in a group of its own                                  *)
Singletons(ws) == [i \in DOMAIN ws |-> <<ws[i]>>]

(* lines 219-255: _fix_sentence_timing_overlaps called on its own *)
CallFixSentenceTimingOverlaps ==
    /\ gpc = "call"
    /\ groups' = Singletons(g_words)
    /\ fixed_groups' = FixSentenceTimingOverlaps(Singletons(g_words))
    /\ gpc' = "fixed"
    /\ UNCHANGED <<g_words, events, events_text, video_width, video_height, header, outside_group>>

GroupNext ==
    \/ GroupWordsIntoSentences
    \/ GenerateEvents
    \/ CallFixSentenceTimingOverlaps

SpecGroup == GroupInit /\ [][GroupNext]_vars

----------------------------------------------------------------------------
(* build_karaoke_ass / ASSBuilder.build_ass_content on several canvases:   *)
(* the default one, the one the enterprise worker passes, a landscape one  *)
(* and one of odd width                                                    *)

Canvases == {<<576, 1024>>, <<1080, 1920>>, <<1280, 720>>, <<721, 1012>>}

CanvasInit ==
    /\ OnlyGroup
    /\ g_words \in Chains(MaxCanvasWords)
    /\ \E canvas \in Canvases : video_width = canvas[1] /\ video_height = canvas[2]
    /\ groups = <<>>
    /\ fixed_groups = <<>>
    /\ gpc = "call"
    /\ events = <<>>
    /\ events_text = <<>>
    /\ header = <<>>

(* lines 30-50: header, styles and events of one text *)
BuildAssContent ==
    /\ gpc = "call"
    /\ header' = <<GenerateHeader>>
    /\ groups' = GroupWords(g_words)
    /\ fixed_groups' = FixSentenceTimingOverlaps(GroupWords(g_words))
    /\ events' = GenerateEventsOf(FixSentenceTimingOverlaps(GroupWords(g_words)))
    /\ events_text' = EventsText(GenerateEventsOf(FixSentenceTimingOverlaps(GroupWords(g_words))))
    /\ gpc' = "built"
    /\ UNCHANGED <<g_words, video_width, video_height, outside_group>>

CanvasNext == BuildAssContent

SpecCanvas == CanvasInit /\ [][CanvasNext]_vars

----------------------------------------------------------------------------
(* GentleAligner._process_gentle_output (alignment.py)                     *)

(* _find_fallback_timing that answers with the recognizer's timing of the  *)
(* first word of that text                                                 *)
FindFallbackTimingMatching(word, whisper_data) ==
    LET matches == {i \in DOMAIN whisper_data : whisper_data[i].word = word}
    IN IF matches = {} THEN <<>>
       ELSE LET i == CHOOSE m \in matches : \A n \in matches : m <= n
            IN <<[start |-> whisper_data[i].start, end |-> whisper_data[i].end]>>

(* _find_fallback_timing: always None, written <<>> *)
FindFallbackTiming(word, whisper_data) == <<>>

GentleWord(word_data, whisper_data) ==
    IF word_data.case = "success"
    THEN <<[word |-> word_data.word, start |-> word_data.start, end |-> word_data.end,
            source |-> "gentle"]>>
    ELSE IF word_data.word # ""
         THEN LET fallback_timing == FindFallbackTiming(word_data.word, whisper_data)
              IN IF fallback_timing # <<>>
                 THEN <<[word |-> word_data.word, start |-> fallback_timing[1].start,
                         end |-> fallback_timing[1].end, source |-> "whisper_fallback"]>>
                 ELSE <<>>
         ELSE <<>>

RECURSIVE AlignedWords(_, _)
AlignedWords(gentle_words, whisper_data) ==
    IF gentle_words = <<>> THEN <<>>
    ELSE GentleWord(Head(gentle_words), whisper_data)
            \o AlignedWords(Tail(gentle_words), whisper_data)

SuccessCount(gentle_words) ==
    Cardinality({i \in DOMAIN gentle_words : gentle_words[i].case = "success"})

(* alignment_rate is the quotient rate_num / rate_den *)
ProcessGentleOutput(gentle_words, whisper_data) ==
    [words |-> AlignedWords(gentle_words, whisper_data),
     alignment_stats |->
        [total_words |-> Len(gentle_words),
         aligned_words |-> SuccessCount(gentle_words),
         rate_num |-> SuccessCount(gentle_words),
         rate_den |-> Max(1, Len(gentle_words))]]

----------------------------------------------------------------------------
(* main_enterprise.main with GentleAligner.align_audio_transcript and      *)
(* burn_subtitles_with_ffmpeg; the outcomes of the external programs and   *)
(* of the alignment service are chosen when the code observes them         *)

InitialWordLists ==
    { <<[word |-> "hi", start |-> 2000, end |-> 30000, source |-> "whisper"]>>,
      <<[word |-> "hi", start |-> 2000, end |-> 30000, source |-> "whisper"],
        [word |-> "you", start |-> 30000, end |-> 58000, source |-> "whisper"]>> }

GentleWordData ==
    [word : {"hi", ""}, case : {"success", "not-found-in-audio"},
     start : {0, 50000}, end : {40000}]

RECURSIVE SeqsUpTo(_, _)
SeqsUpTo(S, n) ==
    IF n = 0 THEN {<<>>}
    ELSE LET shorter == SeqsUpTo(S, n - 1)
         IN shorter \cup {Append(q, x) : q \in {c \in shorter : Len(c) = n - 1}, x \in S}

GentleResponses == SeqsUpTo(GentleWordData, MaxGentleWords)

JobInit ==
    /\ OnlyJob
    /\ jpc = "start"
    /\ caption_mode \in {"words", "sentences", "other"}
    /\ progress = <<>>
    /\ exit_status = None
    /\ failed_stage = "none"
    /\ initial_words = <<>>
    /\ gentle_requests = <<>>
    /\ gentle_data = <<>>
    /\ align_failure = "none"
    /\ aligned_data = <<>>
    /\ aligned_words = <<>>

(* sys.exit(1), or an exception that ends the process *)
Exit(status, stage) ==
    /\ jpc' = "exited"
    /\ exit_status' = status
    /\ failed_stage' = stage

(* lines 212-219: a wrong number of arguments, or a font size that is no  *)
(* number, ends the process before anything is logged                      *)
UsageError ==
    /\ jpc = "start"
    /\ Exit(1, "usage")
    /\ UNCHANGED <<caption_mode, progress, initial_words, gentle_requests, gentle_data,
                   align_failure, aligned_data, aligned_words, outside_job>>

(* lines 226-239; load_preset_style is called outside the try *)
JobStart ==
    /\ jpc = "start"
    /\ progress' = Append(progress, 10)
    /\ \E preset_loaded \in BOOLEAN :
          IF preset_loaded
          THEN jpc' = "extract" /\ UNCHANGED <<exit_status, failed_stage>>
          ELSE Exit(1, "preset")
    /\ UNCHANGED <<caption_mode, initial_words, gentle_requests, gentle_data,
                   align_failure, aligned_data, aligned_words, outside_job>>

(* lines 242-244 and 40-59, 333-335 *)
ExtractAudio ==
    /\ jpc = "extract"
    /\ progress' = Append(progress, 20)
    /\ \E returncode \in {0, 1} :
          IF returncode = 0
          THEN jpc' = "transcribe" /\ UNCHANGED <<exit_status, failed_stage>>
          ELSE Exit(1, "extract")
    /\ UNCHANGED <<caption_mode, initial_words, gentle_requests, gentle_data,
                   align_failure, aligned_data, aligned_words, outside_job>>

(* lines 246-255 and 62-98, 101-139 *)
Transcribe ==
    /\ jpc = "transcribe"
    /\ \E transcribed \in BOOLEAN :
          IF transcribed
          THEN /\ progress' = progress \o <<30, 40>>
               /\ initial_words' \in InitialWordLists
               /\ jpc' = "mode"
               /\ UNCHANGED <<exit_status, failed_stage>>
          ELSE /\ progress' = Append(progress, 30)
               /\ UNCHANGED initial_words
               /\ Exit(1, "transcribe")
    /\ UNCHANGED <<caption_mode, gentle_requests, gentle_data,
                   align_failure, aligned_data, aligned_words, outside_job>>

(* lines 257-263 *)
SentenceMode ==
    /\ jpc = "mode" /\ caption_mode = "sentences"
    /\ Exit(1, "sentences")
    /\ UNCHANGED <<caption_mode, progress, initial_words, gentle_requests, gentle_data,
                   align_failure, aligned_data, aligned_words, outside_job>>

(* lines 279-280: precision is 'mvp', no alignment *)
SkipAlignment ==
    /\ jpc = "mode" /\ caption_mode = "other"
    /\ aligned_words' = initial_words
    /\ jpc' = "filter"
    /\ UNCHANGED <<caption_mode, progress, exit_status, failed_stage, initial_words,
                   gentle_requests, gentle_data, align_failure, aligned_data,
                   outside_job>>

(* lines 267-271 and alignment.py 21-27, 40-41: the health check fails and *)
(* align_audio_transcript raises RuntimeError before its try; main's       *)
(* `except Exception` prints it and exits with status 1                    *)
AlignUnavailable ==
    /\ jpc = "mode" /\ caption_mode = "words"
    /\ progress' = Append(progress, 45)
    /\ gentle_requests' = Append(gentle_requests, "GET /")
    /\ align_failure' = "health"
    /\ Exit(1, "align")
    /\ UNCHANGED <<caption_mode, initial_words, gentle_data, aligned_data, aligned_words,
                   outside_job>>

(* lines 267-278 and alignment.py 43-84: the health check passes, the call *)
(* returns a status other than 200 or raises; align_audio_transcript       *)
(* returns None                                                            *)
AlignFails ==
    /\ jpc = "mode" /\ caption_mode = "words"
    /\ progress' = Append(progress, 45)
    /\ gentle_requests' = gentle_requests \o <<"GET /", "POST /transcriptions">>
    /\ align_failure' \in {"status", "exception"}
    /\ aligned_data' = <<>>
    /\ aligned_words' = initial_words
    /\ jpc' = "filter"
    /\ UNCHANGED <<caption_mode, exit_status, failed_stage, initial_words, gentle_data,
                   outside_job>>

(* lines 267-275 and alignment.py 70-73: status 200 *)
AlignSucceeds ==
    /\ jpc = "mode" /\ caption_mode = "words"
    /\ progress' = Append(progress, 45)
    /\ gentle_requests' = gentle_requests \o <<"GET /", "POST /transcriptions">>
    /\ gentle_data' \in GentleResponses
    /\ aligned_data' = <<ProcessGentleOutput(gentle_data', initial_words)>>
    /\ aligned_words' = aligned_data'[1].words
    /\ jpc' = "filter"
    /\ UNCHANGED <<caption_mode, exit_status, failed_stage, initial_words, align_failure,
                   outside_job>>

(* lines 282-318: filtering, timing optimization and subtitle generation.  *)
(* When no word is left (none aligned, all filtered or all past the clip)  *)
(* estimate_reading_load returns {} and line 308 raises KeyError; writing  *)
(* the subtitle file can fail; both end in lines 333-335.                  *)
Layout ==
    /\ jpc = "filter"
    /\ \E outcome \in IF aligned_words = <<>>
                       THEN {"no words"}
                       ELSE {"written", "no words", "not written"} :
          CASE outcome = "written" ->
                  /\ progress' = progress \o <<50, 60, 70>>
                  /\ jpc' = "burn"
                  /\ UNCHANGED <<exit_status, failed_stage>>
            [] outcome = "no words" ->
                  /\ progress' = progress \o <<50, 60>>
                  /\ Exit(1, "layout")
            [] outcome = "not written" ->
                  /\ progress' = progress \o <<50, 60, 70>>
                  /\ Exit(1, "layout")
    /\ UNCHANGED <<caption_mode, initial_words, gentle_requests, gentle_data,
                   align_failure, aligned_data, aligned_words, outside_job>>

(* line 321 logging 65, below the 70 of line 311 *)
BurnStartLogsLower ==
    /\ jpc = "burn"
    /\ progress' = Append(progress, 65)
    /\ jpc' = "burning"
    /\ UNCHANGED <<caption_mode, exit_status, failed_stage, initial_words,
                   gentle_requests, gentle_data, align_failure, aligned_data,
                   aligned_words, outside_job>>

(* lines 320-322 and 153-193 *)
BurnStart ==
    /\ jpc = "burn"
    /\ progress' = Append(progress, 75)
    /\ jpc' = "burning"
    /\ UNCHANGED <<caption_mode, exit_status, failed_stage, initial_words,
                   gentle_requests, gentle_data, align_failure, aligned_data,
                   aligned_words, outside_job>>

Count(q, x) == Cardinality({i \in DOMAIN q : q[i] = x})

(* lines 195-200: a line of ffmpeg's output that holds 'time=' *)
BurnProgress ==
    /\ jpc = "burning"
    /\ Count(progress, 85) < MaxFfmpegLines
    /\ progress' = Append(progress, 85)
    /\ UNCHANGED <<jpc, caption_mode, exit_status, failed_stage, initial_words,
                   gentle_requests, gentle_data, align_failure, aligned_data,
                   aligned_words, outside_job>>

(* burn_subtitles_with_ffmpeg logging 100 whatever ffmpeg returned *)
BurnEndLogsAlways ==
    /\ jpc = "burning"
    /\ progress' = Append(progress, 100)
    /\ \E returncode \in {0, 1} :
          IF returncode = 0 THEN Exit(0, "none") ELSE Exit(1, "burn")
    /\ UNCHANGED <<caption_mode, initial_words, gentle_requests, gentle_data,
                   align_failure, aligned_data, aligned_words, outside_job>>

(* lines 197-198, 202-208 and 322-335 *)
BurnEnd ==
    /\ jpc = "burning"
    /\ \E returncode \in {0, 1} :
          IF returncode = 0
          THEN progress' = Append(progress, 100) /\ Exit(0, "none")
          ELSE UNCHANGED progress /\ Exit(1, "burn")
    /\ UNCHANGED <<caption_mode, initial_words, gentle_requests, gentle_data,
                   align_failure, aligned_data, aligned_words, outside_job>>

JobNext ==
    \/ UsageError
    \/ JobStart
    \/ ExtractAudio
    \/ Transcribe
    \/ SentenceMode
    \/ SkipAlignment
    \/ AlignUnavailable
    \/ AlignFails
    \/ AlignSucceeds
    \/ Layout
    \/ BurnStart
    \/ BurnProgress
    \/ BurnEnd

SpecJob == JobInit /\ [][JobNext]_vars

----------------------------------------------------------------------------
(* WordFilter (filters.py). Word texts are strings; str.lower, str.isdigit  *)
(* and str.isupper are given on the texts that occur.                      *)

fallback_stop_words ==
    { "a", "an", "the",
      "in", "on", "at", "by", "for", "with", "from", "to", "of", "up", "out", "off", "down",
      "over", "under", "above", "below", "through", "between", "into", "onto", "upon",
      "and", "or", "but", "so", "yet", "nor", "because", "since", "while", "although", "though",
      "is", "are", "was", "were", "be", "been", "being", "have", "has", "had", "do", "does", "did",
      "will", "would", "could", "should", "may", "might", "can", "must", "shall",
      "it", "its", "they", "them", "their", "theirs",
      "that", "this", "these", "those", "some", "any", "all", "each", "every",
      "very", "too", "also", "then", "than", "now", "here", "there", "yes", "yeah", "ok", "okay" }

(* the union of the sets of preserve_patterns *)
preserve_patterns ==
    { "really", "very", "super", "totally", "absolutely", "definitely" }
        \cup { "up", "down", "in", "out", "over", "under", "through" }
        \cup { "i", "me", "you", "we", "us" }
        \cup { "what", "when", "where", "why", "how", "who", "which" }

negations == { "not", "no", "never", "nothing", "nobody" }

(* word_data['word'].lower() *)
Lower(text) == IF text = "The" THEN "the" ELSE text

(* word.isdigit() *)
IsDigit(text) == text \in {"7"}

(* word[0].isupper() if word else False *)
FirstIsUpper(text) == text \in {"The"}

(* _is_contextually_important, called with the lower-cased word *)
IsContextuallyImportant(word, wd, index) ==
    \/ Len(wd) <= 3
    \/ IsDigit(word) \/ FirstIsUpper(word)
    \/ word \in negations \cup {"none"}

(* _is_short_phrase *)
IsShortPhrase(wd, index) == Len(wd) <= 2

(* the properties SpaCy gives a token; <<>> is a word without a token of   *)
(* its own text (word_properties.get(word, {}))                            *)
NoProps == <<>>

(* _should_filter_word *)
ShouldFilterWord(word, props, wd, index) ==
    IF props = NoProps THEN word \in fallback_stop_words
    ELSE \/ props[1].pos \in {"DET", "ADP", "CCONJ", "SCONJ", "PART"}
         \/ /\ props[1].tag \in {"MD", "VBZ", "VBP", "VBD", "VBN"}
            /\ props[1].dep \in {"aux", "auxpass", "cop"}
         \/ props[1].is_stop /\ word \notin negations

(* _should_preserve_word *)
ShouldPreserveWord(word, props, wd, index) ==
    \/ word \in preserve_patterns
    \/ IsShortPhrase(wd, index)
    \/ props # NoProps /\ props[1].pos = "ADV" /\ props[1].dep \in {"advmod", "neg"}
    \/ props # NoProps /\ props[1].pos \in {"NUM", "PROPN"}

(* lines 110-124: is_active of one word under the SpaCy tagger *)
SpacyIsActive(tagger, wd, index) ==
    LET word == Lower(wd[index].word)
        props == tagger[1][word]
    IN ShouldPreserveWord(word, props, wd, index) \/ ~ShouldFilterWord(word, props, wd, index)

(* lines 141-158: is_active of one word under the stop word list *)
FallbackIsActive(wd, index) ==
    LET word == Lower(wd[index].word)
    IN \/ word \notin fallback_stop_words
       \/ word \in preserve_patterns
       \/ IsContextuallyImportant(word, wd, index)

(* lines 131 and 164 with the test `show_filler` alone *)
IncludeWhenShown(show_filler, is_active) == show_filler

(* lines 131 and 164: `if show_filler or is_active` *)
Include(show_filler, is_active) == show_filler \/ is_active

(* the loops of lines 109-132 and 140-165: word_data.copy() with 'active' *)
RECURSIVE FilterLoop(_, _, _, _, _)
FilterLoop(tagger, wd, i, show_filler, filtered_words) ==
    IF i > Len(wd) THEN filtered_words
    ELSE LET is_active == IF tagger = NoModel
                          THEN FallbackIsActive(wd, i)
                          ELSE SpacyIsActive(tagger, wd, i)
             word_result == [word |-> wd[i].word, start |-> wd[i].start,
                             end |-> wd[i].end, active |-> is_active]
         IN FilterLoop(tagger, wd, i + 1, show_filler,
                       IF Include(show_filler, is_active)
                       THEN Append(filtered_words, word_result)
                       ELSE filtered_words)

(* WordFilter.filter_words *)
FilterWordsOf(tagger, wd, show_filler) ==
    IF wd = <<>> THEN wd ELSE FilterLoop(tagger, wd, 1, show_filler, <<>>)

----------------------------------------------------------------------------
(* The calls of filter_words that are explored: lists of up to             *)
(* MaxFilterWords words over a vocabulary with a stop word, its            *)
(* capitalized form, a stop word of preserve_patterns, a content word and  *)
(* a number; with the stop word list, or with a tagger that gives each     *)
(* lower-cased text one of the properties SpaCy can give it.               *)

FilterVocabulary == {"the", "The", "up", "cat", "7"}

Props(pos, tag, dep, is_stop) == <<[pos |-> pos, tag |-> tag, dep |-> dep, is_stop |-> is_stop]>>

Taggers ==
    { [w \in {"the", "up", "cat", "7"} |->
          CASE w = "the" -> the
            [] w = "up" -> up
            [] w = "cat" -> cat
            [] OTHER -> seven] :
      the \in {Props("DET", "DT", "det", TRUE), NoProps},
      up \in {Props("ADP", "RP", "prt", TRUE), Props("ADV", "RB", "advmod", TRUE)},
      cat \in {Props("NOUN", "NN", "nsubj", FALSE), Props("AUX", "VBZ", "aux", FALSE),
               Props("PROPN", "NNP", "nsubj", TRUE)},
      seven \in {Props("NUM", "CD", "nummod", FALSE), NoProps} }

FilterWord(i, text) == [word |-> text, start |-> 30000 * i, end |-> 30000 * i + 20000]

FilterInputs ==
    UNION {{[i \in 1..n |-> FilterWord(i, f[i])] : f \in [1..n -> FilterVocabulary]} :
              n \in 0..MaxFilterWords}

FilterInit ==
    /\ OnlyFilter
    /\ f_words \in FilterInputs
    /\ nlp \in {NoModel} \cup {<<tagger>> : tagger \in Taggers}
    /\ called = {}
    /\ filtered = [show_filler \in BOOLEAN |-> <<>>]

(* lines 69-89: one call of filter_words on the same list *)
FilterWords ==
    \E show_filler \in BOOLEAN \ called :
        /\ called' = called \cup {show_filler}
        /\ filtered' = [filtered EXCEPT ![show_filler] = FilterWordsOf(nlp, f_words, show_filler)]
        /\ UNCHANGED <<f_words, nlp, outside_filter>>

FilterNext == FilterWords

SpecFilter == FilterInit /\ [][FilterNext]_vars

----------------------------------------------------------------------------
(* optimize_timing on Python objects: a dict has an address in `heap`, a   *)
(* list is a sequence of addresses, dict.copy() makes a dict at a fresh    *)
(* address and an item assignment writes the dict at the address it is     *)
(* made through. A dict is a record with the field `missing` naming the    *)
(* key it lacks ("none" when it has all four); the field of a missing key  *)
(* is never read, except 'active', read by word.get('active', True).       *)

Deref(h, refs) == [i \in DOMAIN refs |-> h[refs[i]]]

(* a phase that reads each dict it is given and never copies: the dict it  *)
(* writes is the one it was given                                          *)
CopyAlias(h, ref, k) == ref

(* word.copy() of the k-th word of a phase: the k-th address past the heap *)
Copy(h, ref, k) == Len(h) + k

CopyAll(h, refs) == [i \in DOMAIN refs |-> Copy(h, refs[i], i)]

(* the heap once the copies exist, each equal to the dict it copies *)
Alloc(h, refs) == h \o Deref(h, refs)

(* the item assignments of a phase: dict at targets[i] gets the values vals[i] *)
RECURSIVE Store(_, _, _)
Store(h, targets, vals) ==
    IF targets = <<>> THEN h
    ELSE Store([h EXCEPT ![Head(targets)] = Head(vals)], Tail(targets), Tail(vals))

(* sorted(words_data, key=lambda w: w['start']): a new list of the same dicts *)
SortedRefs(h, refs) ==
    LET keyed == [i \in DOMAIN refs |-> [start |-> h[refs[i]].start, ref |-> refs[i]]]
        sorted == SortedByStart(keyed)
    IN [i \in DOMAIN sorted |-> sorted[i].ref]

(* the words _clamp_to_clip_duration keeps (line 181 reads the start       *)
(* before line 187 changes it)                                             *)
KeptByClamp(h, refs, clip) == {i \in DOMAIN refs : h[refs[i]].start < clip}

Pick(s, idx) ==
    LET IsKept(i) == i \in idx
        order == SelectSeq([i \in DOMAIN s |-> i], IsKept)
    IN [j \in DOMAIN order |-> s[order[j]]]

Lacks(h, refs, key) == \E i \in DOMAIN refs : h[refs[i]].missing = key

----------------------------------------------------------------------------
(* The calls explored: lists of up to MaxDictWords dicts with the shapes   *)
(* of WordShapes, and dicts that lack 'start', 'end' or 'active'.          *)

DictShapes ==
    {[word |-> 0, start |-> sh.start, end |-> sh.start + sh.dur, active |-> sh.active,
      missing |-> "none"] : sh \in WordShapes}
    \cup {[word |-> 0, start |-> 0, end |-> 100000, active |-> TRUE, missing |-> m] :
             m \in {"start", "end", "active"}}

DictLists ==
    UNION {{[i \in 1..n |-> [f[i] EXCEPT !.word = i]] : f \in [1..n -> DictShapes]} :
              n \in 0..MaxDictWords}

DictInit ==
    /\ OnlyDict
    /\ heap \in DictLists
    /\ d_input = [i \in DOMAIN heap |-> i]
    /\ d_before = heap
    /\ d_clip \in Clips
    /\ d_threshold \in Thresholds
    /\ d_words = <<>>
    /\ d_held = <<>>
    /\ dpc = "start"

(* lines 44-45 *)
ReturnWordsData ==
    /\ dpc = "start" /\ d_input = <<>>
    /\ d_words' = d_input
    /\ dpc' = "returned"
    /\ UNCHANGED <<heap, d_input, d_before, d_clip, d_threshold, d_held, outside_dict>>

(* line 48; w['start'] raises KeyError on a dict without 'start' *)
CallSorted ==
    /\ dpc = "start" /\ d_input # <<>>
    /\ IF Lacks(heap, d_input, "start")
       THEN dpc' = "raised" /\ UNCHANGED d_words
       ELSE dpc' = "sorted" /\ d_words' = SortedRefs(heap, d_input)
    /\ UNCHANGED <<heap, d_input, d_before, d_clip, d_threshold, d_held, outside_dict>>

(* line 51 and 71-91; word['end'] raises KeyError on a dict without 'end' *)
CallApplyMinimumDurations ==
    /\ dpc = "sorted"
    /\ IF Lacks(heap, d_words, "end")
       THEN dpc' = "raised" /\ UNCHANGED <<heap, d_words, d_held>>
       ELSE /\ dpc' = "min"
            /\ d_words' = CopyAll(heap, d_words)
            /\ heap' = Store(Alloc(heap, d_words), CopyAll(heap, d_words),
                             ApplyMinimumDurations(Deref(heap, d_words)))
            /\ d_held' = Append(d_held, d_words)
    /\ UNCHANGED <<d_input, d_before, d_clip, d_threshold, outside_dict>>

(* line 54 and 93-113; a list of one word is returned as it is *)
CallMergeShortGaps ==
    /\ dpc = "min"
    /\ dpc' = "merged"
    /\ d_held' = Append(d_held, d_words)
    /\ IF Len(d_words) <= 1
       THEN UNCHANGED <<heap, d_words>>
       ELSE /\ d_words' = CopyAll(heap, d_words)
            /\ heap' = Store(Alloc(heap, d_words), CopyAll(heap, d_words),
                             MergeShortGaps(Deref(heap, d_words), d_threshold))
    /\ UNCHANGED <<d_input, d_before, d_clip, d_threshold, outside_dict>>

(* line 57 and 115-154; a list of one word is returned as it is *)
CallResolveOverlaps ==
    /\ dpc = "merged"
    /\ dpc' = "resolved"
    /\ d_held' = Append(d_held, d_words)
    /\ IF Len(d_words) <= 1
       THEN UNCHANGED <<heap, d_words>>
       ELSE /\ d_words' = CopyAll(heap, d_words)
            /\ heap' = Store(Alloc(heap, d_words), CopyAll(heap, d_words),
                             ResolveOverlaps(Deref(heap, d_words)))
    /\ UNCHANGED <<d_input, d_before, d_clip, d_threshold, outside_dict>>

(* line 60 and 156-169 *)
CallApplyMaximumDurations ==
    /\ dpc = "resolved"
    /\ dpc' = "maxed"
    /\ d_held' = Append(d_held, d_words)
    /\ d_words' = CopyAll(heap, d_words)
    /\ heap' = Store(Alloc(heap, d_words), CopyAll(heap, d_words),
                     ApplyMaximumDurations(Deref(heap, d_words)))
    /\ UNCHANGED <<d_input, d_before, d_clip, d_threshold, outside_dict>>

(* lines 63-64 and 171-191 *)
CallClampToClipDuration ==
    /\ dpc = "maxed"
    /\ dpc' = "clamped"
    /\ IF ClipGiven(d_clip)
       THEN LET kept == KeptByClamp(heap, d_words, d_clip)
                targets == Pick(CopyAll(heap, d_words), kept)
            IN /\ d_words' = targets
               /\ heap' = Store(Alloc(heap, d_words), targets,
                                ClampToClipDuration(Deref(heap, d_words), d_clip))
               /\ d_held' = Append(d_held, d_words)
       ELSE UNCHANGED <<heap, d_words, d_held>>
    /\ UNCHANGED <<d_input, d_before, d_clip, d_threshold, outside_dict>>

(* lines 67-69 and 193-211 *)
CallValidateTiming ==
    /\ dpc = "clamped"
    /\ dpc' = "returned"
    /\ d_held' = Append(d_held, d_words)
    /\ d_words' = CopyAll(heap, d_words)
    /\ heap' = Store(Alloc(heap, d_words), CopyAll(heap, d_words),
                     ValidateTiming(Deref(heap, d_words)))
    /\ UNCHANGED <<d_input, d_before, d_clip, d_threshold, outside_dict>>

DictNext ==
    \/ ReturnWordsData
    \/ CallSorted
    \/ CallApplyMinimumDurations
    \/ CallMergeShortGaps
    \/ CallResolveOverlaps
    \/ CallApplyMaximumDurations
    \/ CallClampToClipDuration
    \/ CallValidateTiming

SpecDict == DictInit /\ [][DictNext]_vars

----------------------------------------------------------------------------
(* Calls of ASSBuilder._seconds_to_ass_time: whole minutes up to           *)
(* MaxMinutes plus seconds near 0 and near 60; the times on a half          *)
(* centisecond are eighths of a second, which a float holds exactly        *)

SecondsOffsets ==
    {0, 400, 600, 1400, 12500, 37500, 3000000, 5999400, 5999600, 5999900}

SecondsInputs == {m * 6000000 + off : m \in 0..MaxMinutes, off \in SecondsOffsets}

AssTimeInit ==
    /\ OnlyBuilder
    /\ arg_seconds \in SecondsInputs
    /\ ass_time = <<>>
    /\ arg_text = <<>>
    /\ escaped = <<>>
    /\ load_words = <<>>
    /\ reading_load = <<>>
    /\ bpc = "call"

(* lines 287-294 *)
CallSecondsToAssTime ==
    /\ bpc = "call"
    /\ ass_time' = <<SecondsToAssTime(arg_seconds)>>
    /\ bpc' = "formatted"
    /\ UNCHANGED <<arg_seconds, arg_text, escaped, load_words, reading_load, outside_builder>>

AssTimeNext == CallSecondsToAssTime

SpecAssTime == AssTimeInit /\ [][AssTimeNext]_vars

----------------------------------------------------------------------------
(* ASSBuilder._escape_ass_text; a string is the sequence of its characters *)
(* and "\\" is the one character backslash                                 *)

(* text.replace(old, new): the occurrences of old from left to right,      *)
(* without overlap                                                         *)
RECURSIVE Replace(_, _, _)
Replace(str, old, new) ==
    IF Len(str) < Len(old) THEN str
    ELSE IF SubSeq(str, 1, Len(old)) = old
         THEN new \o Replace(SubSeq(str, Len(old) + 1, Len(str)), old, new)
         ELSE <<Head(str)>> \o Replace(Tail(str), old, new)

(* lines 281-283: the literal '\\\\' of the source is two backslashes,     *)
(* '\\\\\\\\' four, '\\\\{' two backslashes and the brace                  *)
EscapeAssText(str) ==
    LET step1 == Replace(str, <<"\\", "\\">>, <<"\\", "\\", "\\", "\\">>)
        step2 == Replace(step1, <<"{">>, <<"\\", "\\", "{">>)
    IN Replace(step2, <<"}">>, <<"\\", "\\", "}">>)

Characters == {"\\", "{", "}", "a"}

Texts == SeqsUpTo(Characters, MaxTextLen)

EscapeInit ==
    /\ OnlyBuilder
    /\ arg_seconds = 0
    /\ ass_time = <<>>
    /\ arg_text \in Texts
    /\ escaped = <<>>
    /\ load_words = <<>>
    /\ reading_load = <<>>
    /\ bpc = "call"

(* lines 275-285 *)
CallEscapeAssText ==
    /\ bpc = "call"
    /\ escaped' = EscapeAssText(arg_text)
    /\ bpc' = "escaped"
    /\ UNCHANGED <<arg_seconds, ass_time, arg_text, load_words, reading_load, outside_builder>>

EscapeNext == CallEscapeAssText

SpecEscape == EscapeInit /\ [][EscapeNext]_vars

----------------------------------------------------------------------------
(* estimate_reading_load (ass_builder.py); words_per_second is the         *)
(* quotient wps_num / wps_den of a word count and a time in seconds        *)

Sum(f, S) ==
    LET RECURSIVE Acc(_)
        Acc(T) == IF T = {} THEN 0 ELSE LET x == CHOOSE y \in T : TRUE IN f[x] + Acc(T \ {x})
    IN Acc(S)

(* q > k / 10 for the quotient q = num / den of a count and a time in      *)
(* units of 10 microseconds; q is 0 when den is 0                          *)
Exceeds(num, den, k) == den > 0 /\ num * 100000 * 10 > k * den

(* lines 369-376 with >= in place of > *)
DifficultyAtLeast(num, den) ==
    IF den > 0 /\ num * 100000 * 10 >= 35 * den THEN "Very Hard"
    ELSE IF den > 0 /\ num * 100000 * 10 >= 25 * den THEN "Hard"
    ELSE IF den > 0 /\ num * 100000 * 10 >= 15 * den THEN "Medium"
    ELSE "Easy"

(* lines 369-376 *)
Difficulty(num, den) ==
    IF Exceeds(num, den, 35) THEN "Very Hard"
    ELSE IF Exceeds(num, den, 25) THEN "Hard"
    ELSE IF Exceeds(num, den, 15) THEN "Medium"
    ELSE "Easy"

(* lines 358-386 *)
EstimateReadingLoad(ws) ==
    IF ws = <<>> THEN <<>>
    ELSE LET total_duration == Last(ws).end - ws[1].start
             active_words == {i \in DOMAIN ws : ws[i].active}
             wps_den == IF total_duration > 0 THEN total_duration ELSE 0
         IN <<[total_words |-> Len(ws),
               active_words |-> Cardinality(active_words),
               wps_num |-> Cardinality(active_words),
               wps_den |-> wps_den,
               avg_word_duration_num |-> Sum([i \in DOMAIN ws |-> ws[i].end - ws[i].start],
                                             active_words),
               avg_word_duration_den |-> Cardinality(active_words),
               reading_difficulty |-> Difficulty(Cardinality(active_words), wps_den),
               total_duration |-> total_duration,
               recommended_min_duration |->
                   IF Exceeds(Cardinality(active_words), wps_den, 25) THEN 40000 ELSE 30000]>>

(* the lists explored: up to MaxLoadWords words, each starting where the   *)
(* one before it ends, lasting 0.2, 0.4 or 0.7 s when active, 0.4 s or     *)
(* nothing when not                                                        *)
LoadShapes ==
    [dur : {20000, 40000, 70000}, active : {TRUE}] \cup [dur : {0, 40000}, active : {FALSE}]

LoadWord(ws, sh) ==
    LET prev_end == IF ws = <<>> THEN 0 ELSE Last(ws).end
    IN [word |-> Len(ws) + 1, start |-> prev_end, end |-> prev_end + sh.dur, active |-> sh.active]

RECURSIVE LoadChains(_)
LoadChains(n) ==
    IF n = 0 THEN {<<>>}
    ELSE LET shorter == LoadChains(n - 1)
         IN shorter \cup {Append(ws, LoadWord(ws, sh)) :
                             ws \in {c \in shorter : Len(c) = n - 1}, sh \in LoadShapes}

LoadInit ==
    /\ OnlyBuilder
    /\ arg_seconds = 0
    /\ ass_time = <<>>
    /\ arg_text = <<>>
    /\ escaped = <<>>
    /\ load_words \in LoadChains(MaxLoadWords)
    /\ reading_load = <<>>
    /\ bpc = "call"

(* lines 348-386 *)
CallEstimateReadingLoad ==
    /\ bpc = "call"
    /\ reading_load' = EstimateReadingLoad(load_words)
    /\ bpc' = "estimated"
    /\ UNCHANGED <<arg_seconds, ass_time, arg_text, escaped, load_words, outside_builder>>

LoadNext == CallEstimateReadingLoad

SpecLoad == LoadInit /\ [][LoadNext]_vars

----------------------------------------------------------------------------
(* Properties of optimize_timing *)

Returned == pc \in {"done", "redone"}

(* C1: in the list optimize_timing returns, no word ends after the next   *)
(* word starts: end[i] <= start[i+1] for every adjacent pair.              *)
C1_NoOverlap ==
    Returned => \A i \in 1..(Len(words) - 1) : words[i].end <= words[i + 1].start

(* C2: every returned word lasts at least min_duration (plus the bonus     *)
(* when active); only the final word of a call with a clip duration may be *)
(* shorter, and then not below 100 ms.                                     *)
C2_MinimumDuration ==
    Returned =>
        \A i \in 1..Len(words) :
            \/ words[i].end - words[i].start >= EffectiveMin(words[i])
            \/ /\ clip_duration # None
               /\ i = Len(words)
               /\ words[i].end - words[i].start >= clamp_floor

(* the fields of a record other than its times *)
Identity(ws) == [i \in DOMAIN ws |-> [word |-> ws[i].word, active |-> ws[i].active]]

IsSortedByStart(ws) == \A i \in 1..(Len(ws) - 1) : ws[i].start <= ws[i + 1].start

(* C3: without a clip duration the result holds exactly the input's words, *)
(* in the order of the input sorted stably by original start, and the      *)
(* result is sorted by its own start values.                               *)
C3_OrderPreserved ==
    (Returned /\ clip_duration = None) =>
        /\ Identity(words) = Identity(SortedByStart(words_data))
        /\ IsSortedByStart(words)

(* C4: optimize_timing applied to its own result returns that result.      *)
C4_Idempotent == pc = "redone" => again = words

(* C5: with a clip duration supplied, no returned word ends after it and   *)
(* none starts at or after it.                                             *)
C5_ClipClamp ==
    (Returned /\ clip_duration # None) =>
        \A i \in 1..Len(words) :
            words[i].end <= clip_duration /\ words[i].start < clip_duration

(* C6: every returned word has end > start and start >= 0.                 *)
C6_PositiveDuration ==
    Returned => \A i \in 1..Len(words) : words[i].end > words[i].start /\ words[i].start >= 0

(* a call whose input has a zero-duration, a negative-duration and a       *)
(* negative-start word has returned                                        *)
C6_Witness ==
    /\ pc = "done"
    /\ \E i \in 1..Len(words_data) : words_data[i].end = words_data[i].start
    /\ \E i \in 1..Len(words_data) : words_data[i].end < words_data[i].start
    /\ \E i \in 1..Len(words_data) : words_data[i].start < 0
    /\ Len(words) = Len(words_data)

----------------------------------------------------------------------------
(* Properties of _group_words_into_sentences *)

(* C7: for every adjacent pair of returned groups, the last word of the    *)
(* earlier group ends no later than the first word of the later group      *)
(* starts.                                                                 *)
C7_GroupsDoNotOverlap ==
    gpc = "returned" =>
        \A k \in 1..(Len(fixed_groups) - 1) :
            Last(fixed_groups[k]).end <= fixed_groups[k + 1][1].start

SevenGapFreeWords ==
    [i \in 1..7 |-> [word |-> i, start |-> 30000 * i, end |-> 30000 * (i + 1), active |-> TRUE]]

(* C8: every returned group holds 1 to 6 words, and 7 gap-free words 0.3 s *)
(* apart come back as a group of words 1-6 followed by a group of word 7.  *)
C8_GroupSize ==
    gpc = "returned" =>
        /\ \A k \in 1..Len(fixed_groups) :
              Len(fixed_groups[k]) >= 1 /\ Len(fixed_groups[k]) <= max_words_per_sentence
        /\ g_words = SevenGapFreeWords =>
              /\ Len(fixed_groups) = 2
              /\ [i \in 1..6 |-> fixed_groups[1][i].word] = <<1, 2, 3, 4, 5, 6>>
              /\ [i \in 1..Len(fixed_groups[2]) |-> fixed_groups[2][i].word] = <<7>>

(* the 7 gap-free words have been grouped *)
C8_Witness == gpc = "returned" /\ g_words = SevenGapFreeWords

----------------------------------------------------------------------------
(* Properties of the alignment step *)

(* C9: when the alignment service fails (health check, status, exception)  *)
(* the job is not ended by it, it goes on with the recognizer's words      *)
(* unmodified, and no request is sent to the service a second time.        *)
C9_AlignmentFallback ==
    align_failure # "none" =>
        /\ failed_stage # "align"
        /\ aligned_words = initial_words
        /\ Count(gentle_requests, "GET /") <= 1
        /\ Count(gentle_requests, "POST /transcriptions") <= 1

IsSuccess(word_data) == word_data.case = "success"

Timing(ws) ==
    [i \in DOMAIN ws |-> [word |-> ws[i].word, start |-> ws[i].start, end |-> ws[i].end]]

(* C10: the words _process_gentle_output returns are exactly the service's *)
(* words marked success, in the service's order and with its times; their  *)
(* number is alignment_stats.aligned_words, at most total_words, and the   *)
(* alignment rate lies in [0, 1].                                          *)
C10_OnlySuccessfulWords ==
    aligned_data # <<>> =>
        LET result == aligned_data[1]
            stats == result.alignment_stats
        IN /\ Timing(result.words) = Timing(SelectSeq(gentle_data, IsSuccess))
           /\ Len(result.words) = stats.aligned_words
           /\ stats.aligned_words <= stats.total_words
           /\ stats.total_words = Len(gentle_data)
           /\ stats.rate_den > 0
           /\ 0 <= stats.rate_num /\ stats.rate_num <= stats.rate_den

(* a response with a success word and a failed word that has a text, the   *)
(* text of a recognizer word, has been processed                           *)
C10_Witness ==
    /\ aligned_data # <<>>
    /\ \E i \in DOMAIN gentle_data : gentle_data[i].case = "success"
    /\ \E i \in DOMAIN gentle_data :
          /\ gentle_data[i].case # "success"
          /\ \E j \in DOMAIN initial_words : initial_words[j].word = gentle_data[i].word

----------------------------------------------------------------------------
(* Properties of WordFilter.filter_words *)

IsActive(w) == w.active

Untagged(ws) == [i \in DOMAIN ws |-> [word |-> ws[i].word, start |-> ws[i].start, end |-> ws[i].end]]

(* C11: with show_filler false the result holds only words tagged active;  *)
(* with show_filler true it holds every input word in input order, each    *)
(* with an active flag; and the result of the first is the subsequence of  *)
(* active words of the second (same active set, order preserved).          *)
C11_FilterModes ==
    /\ FALSE \in called => \A i \in 1..Len(filtered[FALSE]) : filtered[FALSE][i].active
    /\ TRUE \in called =>
          /\ Untagged(filtered[TRUE]) = f_words
          /\ \A i \in 1..Len(filtered[TRUE]) : filtered[TRUE][i].active \in BOOLEAN
    /\ called = BOOLEAN => filtered[FALSE] = SelectSeq(filtered[TRUE], IsActive)

(* both modes were called on a list with an inactive and an active word    *)
C11_Witness ==
    /\ called = BOOLEAN
    /\ \E i \in 1..Len(filtered[TRUE]) : ~filtered[TRUE][i].active
    /\ \E i \in 1..Len(filtered[TRUE]) : filtered[TRUE][i].active
    /\ Len(filtered[FALSE]) < Len(f_words)

----------------------------------------------------------------------------
(* Properties of optimize_timing on Python objects *)

Addresses(lists) == UNION {{lists[k][i] : i \in DOMAIN lists[k]} : k \in DOMAIN lists}

(* C12: at every point of a call each dict of the caller's list has the    *)
(* fields it had at the call and the caller's list has its order; and the  *)
(* dicts of the returned list are none of the caller's dicts and none of   *)
(* the dicts of a list an earlier phase returned.                          *)
C12_InputNotModified ==
    /\ dpc # "idle" => Deref(heap, d_input) = d_before
    /\ dpc = "returned" =>
          Addresses(<<d_words>>) \cap (Addresses(<<d_input>>) \cup Addresses(d_held)) = {}

(* a call on two words has returned a list whose times differ from the     *)
(* caller's                                                                *)
C12_Witness ==
    /\ dpc = "returned"
    /\ Len(d_input) >= 2
    /\ Len(d_words) = Len(d_input)
    /\ \A i \in DOMAIN d_words : heap[d_words[i]].end # d_before[heap[d_words[i]].word].end

(* C13: no call of optimize_timing ends with an exception, whatever the    *)
(* durations, starts and missing keys of the dicts it is given.            *)
C13_NeverRaises == dpc # "raised"

(* C14: a call of optimize_timing on an empty list returns an empty list,  *)
(* with a clip duration and without one, and so does a call on that result. *)
C14_EmptyInput ==
    (words_data = <<>> /\ pc # "start") =>
        /\ pc \in {"done", "redone"}
        /\ words = <<>>
        /\ pc = "redone" => again = <<>>

(* the call on an empty list with a clip duration has returned *)
C14_Witness == pc = "done" /\ words_data = <<>> /\ clip_duration = 25000

----------------------------------------------------------------------------
(* Properties of _generate_events *)

(* the lines of a text in pieces that start with "Dialogue:", a line       *)
(* ending at each line end                                                 *)
DialogueLines(pieces) ==
    {i \in DOMAIN pieces : pieces[i] = "Dialogue:" /\ (i = 1 \/ pieces[i - 1] = "\n")}

(* the time a Start or End field stands for, in centiseconds *)
AssTimeValue(t) == (t.hours * 3600 + t.minutes * 60) * 100 + t.secs

(* C15: there is one event per returned group, in group order, from the    *)
(* formatted start of the group's first word to the formatted end of its   *)
(* last word, and every event ends no later than the next one starts.      *)
C15_OneEventPerGroup ==
    gpc = "generated" =>
        /\ Len(events) = Len(fixed_groups)
        /\ Cardinality(DialogueLines(events_text)) = Len(fixed_groups)
        /\ \A n \in 1..Len(events) :
              /\ events[n].start = SecondsToAssTime(fixed_groups[n][1].start)
              /\ events[n].end = SecondsToAssTime(Last(fixed_groups[n]).end)
        /\ \A n \in 1..(Len(events) - 1) :
              AssTimeValue(events[n].end) <= AssTimeValue(events[n + 1].start)

(* C16: consecutive events are on different rows, events two apart on the  *)
(* same row, and the row is that of the parity of the group's index.       *)
C16_RowsAlternate ==
    gpc = "generated" =>
        /\ \A n \in 1..(Len(events) - 1) : events[n].pos_y # events[n + 1].pos_y
        /\ \A n \in 1..(Len(events) - 2) : events[n].pos_y = events[n + 2].pos_y
        /\ \A n \in 1..Len(events) : events[n].pos_y = events[IF n % 2 = 1 THEN 1 ELSE 2].pos_y

(* the events of four groups were generated, on both rows *)
C16_Witness ==
    /\ gpc = "generated"
    /\ Len(events) >= 4
    /\ {events[n].pos_y : n \in 1..Len(events)} = {860, 900}

----------------------------------------------------------------------------
(* Properties of _seconds_to_ass_time, _escape_ass_text and                *)
(* estimate_reading_load                                                   *)

(* C17: a non-negative time is formatted with minutes in 00..59 and a      *)
(* seconds field below 60.00, and the formatted time is the time rounded   *)
(* to the nearest centisecond.                                             *)
C17_AssTimeFormat ==
    (bpc = "formatted" /\ arg_seconds >= 0) =>
        /\ ass_time[1].hours >= 0
        /\ ass_time[1].minutes \in 0..59
        /\ ass_time[1].secs >= 0 /\ ass_time[1].secs < 6000
        /\ AssTimeValue(ass_time[1]) * 1000 - arg_seconds <= 500
        /\ arg_seconds - AssTimeValue(ass_time[1]) * 1000 <= 500

(* reading an escaped text: a backslash and the character after it stand   *)
(* for that character, which is a backslash or a brace; any other          *)
(* character stands for itself and is no backslash and no brace. The       *)
(* result is <<t>> for the text t read, <<>> when the text cannot be read. *)
RECURSIVE Unescape(_)
Unescape(str) ==
    IF str = <<>> THEN << <<>> >>
    ELSE IF Head(str) = "\\"
         THEN IF Len(str) >= 2 /\ str[2] \in {"\\", "{", "}"}
              THEN LET rest == Unescape(SubSeq(str, 3, Len(str)))
                   IN IF rest = <<>> THEN <<>> ELSE << <<str[2]>> \o rest[1] >>
              ELSE <<>>
         ELSE IF Head(str) \in {"{", "}"} THEN <<>>
              ELSE LET rest == Unescape(Tail(str))
                   IN IF rest = <<>> THEN <<>> ELSE << <<Head(str)>> \o rest[1] >>

(* C18: in the escaped text every backslash and every brace of the text    *)
(* stands behind an escaping backslash that is not itself escaped, so that *)
(* reading the escaped text gives back the text.                           *)
C18_EscapeRecoverable == bpc = "escaped" => Unescape(escaped) = <<arg_text>>

ActiveCount(ws) == Cardinality({i \in DOMAIN ws : ws[i].active})

(* the example of the claim: 5 active words over 2.3 s *)
FiveWordsOver23 ==
    <<[word |-> 1, start |-> 0, end |-> 40000, active |-> TRUE],
      [word |-> 2, start |-> 40000, end |-> 80000, active |-> TRUE],
      [word |-> 3, start |-> 80000, end |-> 120000, active |-> TRUE],
      [word |-> 4, start |-> 120000, end |-> 160000, active |-> TRUE],
      [word |-> 5, start |-> 160000, end |-> 230000, active |-> TRUE]>>

(* C19: with wps = active words / (last end - first start), the difficulty *)
(* is Very Hard iff wps > 3.5, Hard iff 2.5 < wps <= 3.5, Medium iff       *)
(* 1.5 < wps <= 2.5, Easy otherwise; recommended_min_duration is 0.4 s     *)
(* exactly for Hard and Very Hard, else 0.3 s; 5 active words over 2.3 s   *)
(* are Medium.                                                             *)
C19_ReadingLoad ==
    (bpc = "estimated" /\ load_words # <<>>) =>
        LET n == ActiveCount(load_words)
            span == Last(load_words).end - load_words[1].start
            over35 == span > 0 /\ n * 1000000 > 35 * span
            over25 == span > 0 /\ n * 1000000 > 25 * span
            over15 == span > 0 /\ n * 1000000 > 15 * span
            load == reading_load[1]
        IN /\ load.reading_difficulty = "Very Hard" <=> over35
           /\ load.reading_difficulty = "Hard" <=> (over25 /\ ~over35)
           /\ load.reading_difficulty = "Medium" <=> (over15 /\ ~over25)
           /\ load.reading_difficulty = "Easy" <=> ~over15
           /\ load.recommended_min_duration = 40000
                 <=> load.reading_difficulty \in {"Hard", "Very Hard"}
           /\ load.recommended_min_duration \in {30000, 40000}
           /\ load_words = FiveWordsOver23 => load.reading_difficulty = "Medium"

(* the load of the 5 active words over 2.3 s was estimated *)
C19_Witness == bpc = "estimated" /\ load_words = FiveWordsOver23

----------------------------------------------------------------------------
(* Properties of the enterprise worker's run *)

FatalStages == {"extract", "transcribe", "sentences", "burn"}

(* C20: when audio extraction, transcription, the sentence mode or the     *)
(* burn-in fails, the process exits with a non-zero status and no          *)
(* PROGRESS:100 was printed; PROGRESS:100 is printed only when the burn-in *)
(* returned success, and the process then exits with status 0.             *)
C20_FatalFailure ==
    /\ failed_stage \in FatalStages =>
          /\ jpc = "exited"
          /\ exit_status # None /\ exit_status # 0
          /\ Count(progress, 100) = 0
    /\ Count(progress, 100) > 0 =>
          /\ failed_stage = "none"
          /\ exit_status = 0
          /\ Last(progress) = 100 /\ Count(progress, 100) = 1
          /\ Count(progress, 75) = 1
    /\ (jpc = "exited" /\ failed_stage # "none") => exit_status = 1

(* the burn-in failed after ffmpeg reported progress *)
C20_Witness ==
    /\ failed_stage = "burn"
    /\ exit_status = 1
    /\ Count(progress, 85) >= 1

----------------------------------------------------------------------------
(* Properties of the phases of optimize_timing, as steps of one call       *)

(* C21: with gap_merge_threshold <= 0 the merge phase returns every word   *)
(* with start and end unchanged, also for words that touch or overlap.     *)
C21_MergeSkipped ==
    [][(pc = "min" /\ pc' = "merged" /\ gap_merge_threshold <= 0) => words' = words]_vars

(* C22: the merge phase changes no start and makes no end smaller.         *)
C22_MergeOnlyGrows ==
    [][(pc = "min" /\ pc' = "merged") =>
          /\ Len(words') = Len(words)
          /\ \A i \in 1..Len(words) :
                /\ words'[i].start = words[i].start
                /\ words'[i].end >= words[i].end]_vars

(* C23: when the overlap phase shortens a word that overlaps its successor *)
(* below 75% of its effective minimum duration, the word's start is not    *)
(* increased and not moved past the word's own end, and a start that moved *)
(* is at least 0 and at least the previous word's end + 50 ms.             *)
C23_StartPulledBack ==
    [][(pc = "merged" /\ pc' = "resolved") =>
          \A i \in 1..(Len(words) - 1) :
              (/\ words[i].end > words[i + 1].start
               /\ 4 * (words'[i].end - words[i].start) < 3 * EffectiveMin(words[i]))
              => /\ words'[i].start <= words[i].start
                 /\ words'[i].start <= words'[i].end
                 /\ words'[i].start # words[i].start =>
                       /\ words'[i].start >= 0
                       /\ i > 1 => words'[i].start >= words'[i - 1].end + overlap_buffer]_vars

----------------------------------------------------------------------------
(* Properties of the grouping before and after the overlap fix             *)

Grouped == gpc \in {"returned", "generated"}

RECURSIVE Flatten(_)
Flatten(gs) == IF gs = <<>> THEN <<>> ELSE Head(gs) \o Flatten(Tail(gs))

RECURSIVE FirstIndex(_, _)
(* the position in the flattened list of the first word of group k *)
FirstIndex(gs, k) == IF k = 1 THEN 1 ELSE FirstIndex(gs, k - 1) + Len(gs[k - 1])

(* the group that holds the word at position p of the flattened list *)
GroupAt(gs, p) ==
    CHOOSE k \in 1..Len(gs) : FirstIndex(gs, k) <= p /\ p < FirstIndex(gs, k) + Len(gs[k])

BreakByCount(gs, p) == p - FirstIndex(gs, GroupAt(gs, p)) + 1 >= 6

BreakByDuration(gs, ws, p) == ws[p + 1].start - gs[GroupAt(gs, p)][1].start > 350000

BreakByGap(ws, p) == ws[p + 1].start - ws[p].end > 80000

(* C25: before the overlap fix the groups are non-empty contiguous slices  *)
(* whose concatenation is the input, and two consecutive words lie in      *)
(* different groups (the later one first in its group) exactly when the    *)
(* earlier one's group holds 6 words up to it, or the later word starts    *)
(* more than 3.5 s after the group's first word, or more than 0.8 s after  *)
(* the earlier word ends.                                                  *)
C25_GroupsPartitionInput ==
    Grouped =>
        /\ Flatten(groups) = g_words
        /\ \A k \in 1..Len(groups) : groups[k] # <<>>
        /\ \A p \in 1..(Len(g_words) - 1) :
              (GroupAt(groups, p + 1) # GroupAt(groups, p))
                  <=> \/ BreakByCount(groups, p)
                      \/ BreakByDuration(groups, g_words, p)
                      \/ BreakByGap(g_words, p)
        /\ \A p \in 1..(Len(g_words) - 1) :
              GroupAt(groups, p + 1) # GroupAt(groups, p) =>
                  /\ GroupAt(groups, p + 1) = GroupAt(groups, p) + 1
                  /\ FirstIndex(groups, GroupAt(groups, p + 1)) = p + 1

(* a list was grouped with one break made by the duration rule alone and   *)
(* one made by the gap rule alone                                          *)
C25_Witness ==
    /\ Grouped
    /\ Flatten(groups) = g_words
    /\ \E p \in 1..(Len(g_words) - 1) :
          /\ BreakByDuration(groups, g_words, p)
          /\ ~BreakByGap(g_words, p) /\ ~BreakByCount(groups, p)
    /\ \E p \in 1..(Len(g_words) - 1) :
          /\ BreakByGap(g_words, p)
          /\ ~BreakByDuration(groups, g_words, p) /\ ~BreakByCount(groups, p)

(* C28: every returned group spans at most 3.5 s from the start of its     *)
(* first word to the end of its last word.                                 *)
C28_GroupWithinLimit ==
    gpc = "returned" =>
        \A k \in 1..Len(fixed_groups) :
            Last(fixed_groups[k]).end - fixed_groups[k][1].start <= 350000

Fixed == gpc \in {"returned", "generated", "fixed"}

(* the group a returned group was made from: the one with its first word *)
SourceOf(m) == CHOOSE k \in 1..Len(groups) : groups[k][1].word = fixed_groups[m][1].word

(* truncating the last word of group k to 50 ms before the next group      *)
(* leaves it no duration                                                   *)
NothingLeft(k) ==
    /\ k < Len(groups)
    /\ groups[k + 1][1].start - 5000 <= Last(groups[k]).start

(* C26: the overlap fix returns non-empty groups, in order; a returned     *)
(* group is its source group unchanged, or with only the end of its last   *)
(* word set to 50 ms before the next group's start, or without its last    *)
(* word when that truncation leaves the word no duration; and a group is   *)
(* missing only when that removed word was its only one.                   *)
C26_OverlapFixFrame ==
    Fixed =>
        /\ \A m \in 1..Len(fixed_groups) :
              /\ fixed_groups[m] # <<>>
              /\ \E k \in 1..Len(groups) : groups[k][1].word = fixed_groups[m][1].word
        /\ \A m \in 1..(Len(fixed_groups) - 1) : SourceOf(m) < SourceOf(m + 1)
        /\ \A m \in 1..Len(fixed_groups) :
              LET k == SourceOf(m)
                  group == groups[k]
                  fixed_group == fixed_groups[m]
              IN \/ fixed_group = group
                 \/ /\ k < Len(groups)
                    /\ fixed_group =
                          [group EXCEPT ![Len(group)].end = groups[k + 1][1].start - 5000]
                 \/ /\ NothingLeft(k)
                    /\ fixed_group = SubSeq(group, 1, Len(group) - 1)
        /\ \A k \in 1..Len(groups) :
              (\A m \in 1..Len(fixed_groups) : SourceOf(m) # k) =>
                  Len(groups[k]) = 1 /\ NothingLeft(k)

(* a direct call of the fix removed a whole group and truncated another   *)
C26_Witness ==
    /\ gpc = "fixed"
    /\ Len(fixed_groups) < Len(groups)
    /\ \E m \in 1..Len(fixed_groups) :
          Last(fixed_groups[m]).end < Last(groups[SourceOf(m)]).end

----------------------------------------------------------------------------
(* Properties of the stop word list rule set                               *)

(* C27: under the stop word list (no tagger) every capitalized word and    *)
(* every all-digit word of the input is tagged active, whatever the length *)
(* of the list.                                                            *)
C27_CapitalizedAndDigitsActive ==
    (nlp = NoModel /\ TRUE \in called) =>
        \A i \in 1..Len(f_words) :
            (FirstIsUpper(f_words[i].word) \/ IsDigit(f_words[i].word)) =>
                /\ i <= Len(filtered[TRUE])
                /\ filtered[TRUE][i].word = f_words[i].word
                /\ filtered[TRUE][i].active

----------------------------------------------------------------------------
(* Properties of the progress lines of the enterprise worker               *)

(* C29: at every point of a job the PROGRESS values printed so far are     *)
(* each in 0..100 and form a non-decreasing sequence.                      *)
C29_ProgressMonotonic ==
    /\ \A i \in 1..Len(progress) : progress[i] \in 0..100
    /\ \A i \in 1..(Len(progress) - 1) : progress[i] <= progress[i + 1]

(* a job whose alignment failed fell back to the recognizer's timing,      *)
(* reported burn-in progress twice and finished                            *)
C29_Witness ==
    /\ align_failure \in {"status", "exception"}
    /\ Count(progress, 85) >= 2
    /\ Last(progress) = 100
    /\ exit_status = 0

----------------------------------------------------------------------------
(* Properties of the caption positions                                     *)

(* C30: on every canvas, each caption event is positioned at               *)
(* x = video_width // 2 and at a y with 0 <= y <= video_height (the        *)
(* PlayResY of the header) that is one of the two rows derived from the    *)
(* canvas height, 85% and 88% of it.                                       *)
C30_PositionOnCanvas ==
    gpc = "built" =>
        /\ header[1].PlayResY = video_height
        /\ \A n \in 1..Len(events) :
              /\ events[n].pos_x = video_width \div 2
              /\ events[n].pos_y >= 0 /\ events[n].pos_y <= header[1].PlayResY
              /\ events[n].pos_y \in {base_y, alt_y}

====
